---- MODULE Spec2Model ----
(***************************************************************************)
(* A model of the esip-summer-2021-geospatial-ml repository:               *)
(*   - deploy/Makefile and the README's deployment sequence (SpecDeploy);  *)
(*   - deploy/config.yaml: the Dask Gateway option handler (SpecGateway)   *)
(*     and the worker pods' scheduling constraints (SpecSched);            *)
(*   - the two notebooks, run one after the other: the exploration         *)
(*     notebook's cells, then the training notebook's parallel load with   *)
(*     find_match / get_item (SpecNotebooks).                              *)
(* Each specification moves its own group of variables and leaves the      *)
(* others at their initial value.                                          *)
(***************************************************************************)
EXTENDS Integers, Sequences, FiniteSets, TLC

VARIABLES
    cloud,       \* the Azure subscription: what az / helm have created
    last,        \* the last `make` invocation and the commands it ran
    docStep,     \* how many commands of the README's sequence were typed
    docResults,  \* exit status (TRUE = 0) of each README command typed
    typedOther,  \* the operator typed a make command the README does not list
    gwPhase,     \* a cluster request: "idle", "submitted" or "done"
    gwCall,      \* what the user passed to new_cluster, and from where
    gwSent,      \* the options the client sent to the gateway
    gwReply,     \* the gateway's answer: a worker configuration or an error
    nodes,       \* cluster nodes: node |-> its pool, or "none"
    pods,        \* Dask worker pods: pod |-> node, 0 (pending) or -1 (none)
    stac,        \* what the two STAC catalogs hold: label chips and scenes
    ex,          \* the exploration notebook's kernel: next cell and namespace
    tr           \* the training notebook's kernel: next cell and namespace

deployVars == <<cloud, last, docStep, docResults, typedOther>>
gwVars == <<gwPhase, gwCall, gwSent, gwReply>>

schedVars == <<nodes, pods>>

nbVars == <<stac, ex, tr>>

vars == <<deployVars, gwVars, schedVars, nbVars>>

\* What each specification leaves alone.
notDeploy == <<gwVars, schedVars, nbVars>>
notGateway == <<deployVars, schedVars, nbVars>>
notSched == <<deployVars, gwVars, nbVars>>
notNotebooks == <<deployVars, gwVars, schedVars>>

(***************************************************************************)
(* The state before anything ran.  Every specification starts with the     *)
(* parts it does not move in this state.                                   *)
(***************************************************************************)

NoCloud ==
    [group |-> FALSE, cluster |-> FALSE, kubeconfig |-> FALSE, gpuNodes |-> -1,
     hub |-> FALSE, account |-> FALSE, container |-> FALSE]

\* No variable set by the caller of make.
NoEnv == [v \in {} |-> ""]

IdleDeploy ==
    /\ cloud = NoCloud
    /\ last = [target |-> "", env |-> NoEnv, found |-> FALSE, ok |-> FALSE,
               cmds |-> <<>>]
    /\ docStep = 0
    /\ docResults = <<>>
    /\ typedOther = FALSE

\* The arguments of new_cluster; -1 stands for an argument not given.
NoCall == [origin |-> "", hasImage |-> FALSE, image |-> <<>>, cores |-> -1,
           memW |-> -1, memF |-> 0]
NoOptions == [hasImage |-> FALSE, image |-> <<>>, cores |-> -1, memW |-> -1,
              memF |-> 0]
NoConfig == [worker_cores |-> 0, worker_cores_limit |-> 0,
             worker_memory |-> [micro |-> 0, unit |-> ""],
             worker_memory_limit |-> [micro |-> 0, unit |-> ""],
             image |-> <<>>]
NoReply == [status |-> "none", error |-> "", config |-> NoConfig]

IdleGateway ==
    /\ gwPhase = "idle"
    /\ gwCall = NoCall
    /\ gwSent = NoOptions
    /\ gwReply = NoReply

\* The most nodes and worker pods the cluster holds.
MaxNodes == 2
MaxPods == 2

IdleSched ==
    /\ nodes = [n \in 1..MaxNodes |-> "none"]
    /\ pods = [p \in 1..MaxPods |-> -1]

\* Values of names a kernel has not assigned yet.
NoArray == [shape |-> <<>>, hw |-> <<>>, x |-> <<>>, y |-> <<>>]
NoRect == [x0 |-> 0, x1 |-> 0, y0 |-> 0, y1 |-> 0]
NoScene == [geom |-> NoRect, cloud |-> -1]
NoChip == [x0 |-> 0, ytop |-> 0, res |-> 0, w |-> 0, h |-> 0, geom |-> NoRect]

NewExploreKernel ==
    [cell |-> 1, failed |-> "", label_links |-> <<>>, label_item |-> NoChip,
     labels |-> NoArray,
     items |-> <<>>, sentinel_item |-> NoScene, data |-> NoArray,
     computed |-> FALSE, data2 |-> NoArray, fitted |-> FALSE, ran |-> <<>>]

NewTrainingKernel ==
    [cell |-> 1, failed |-> "", label_items |-> <<>>, sentinel_items |-> <<>>,
     tasks |-> <<>>, done |-> <<>>, overlapped |-> FALSE, Xys |-> <<>>]

IdleNotebooks ==
    /\ stac = [catalog |-> <<>>, scenes |-> <<>>]
    /\ ex = NewExploreKernel
    /\ tr = NewTrainingKernel

(***************************************************************************)
(* deploy/Makefile                                                         *)
(***************************************************************************)

\* The largest NODE_COUNT the operator types.
MaxNodeCount == 3

\* A word of a recipe line: literal text, or a $(VAR) reference.
Lit(s) == [var |-> FALSE, text |-> s]
Ref(v) == [var |-> TRUE, text |-> v]

\* Makefile lines 3-11: VAR?=value assigns only when VAR is not already set
\* (by the environment or the command line).
MakeDefaults ==
    [LOCATION |-> "westeurope", GROUP |-> "esip2021", CLUSTER |-> "pangeoCluster",
     STORAGE_ACCOUNT |-> "esip2021", STORAGE_CONTAINER |-> "esip2021",
     NODE_COUNT |-> "0"]

\* env is a function from the names the caller exported to their values.
MakeVar(env, v) == IF v \in DOMAIN env THEN env[v] ELSE MakeDefaults[v]

Expand(env, w) == IF w.var THEN MakeVar(env, w.text) ELSE w.text

\* One recipe line, with the options the cloud model reads.
Cmd(prog, sub, name, group, cluster, count) ==
    [prog |-> prog, sub |-> sub, name |-> name, group |-> group,
     cluster |-> cluster, node_count |-> count]

None == Lit("")

\* The recipes, one per rule of the Makefile.
Recipe_group ==
    <<Cmd("az", "group create", Ref("GROUP"), None, None, None)>>

Recipe_cluster ==
    <<Cmd("az", "aks create", Ref("CLUSTER"), Ref("GROUP"), None, Lit("1")),
      Cmd("az", "aks get-credentials", Ref("CLUSTER"), Ref("GROUP"), None, None)>>

Recipe_userpools ==
    <<Cmd("az", "aks nodepool add", Lit("gpumanual"), Ref("GROUP"), Ref("CLUSTER"),
          Lit("0"))>>

Recipe_storage ==
    <<Cmd("az", "storage account create", Ref("STORAGE_ACCOUNT"), Ref("GROUP"),
          None, None),
      Cmd("az", "storage container create", Lit("esip2021"), Ref("STORAGE_CONTAINER"),
          None, None)>>

Recipe_hub ==
    <<Cmd("helm", "upgrade --install", Lit("dask"), None, None, None)>>

\* Line 57 passes the text NODE_COUNT, not $(NODE_COUNT).
Recipe_scale ==
    <<Cmd("az", "aks nodepool scale", Lit("gpumanual"), Ref("GROUP"), Ref("CLUSTER"),
          Lit("NODE_COUNT"))>>

Recipe_clean ==
    <<Cmd("az", "group delete", Ref("GROUP"), None, None, None)>>

\* Mutant: the first rule carries the name the README uses.
Makefile_renamed ==
    ("resource-group" :> Recipe_group) @@
    [cluster |-> Recipe_cluster, userpools |-> Recipe_userpools,
     storage |-> Recipe_storage, hub |-> Recipe_hub, scale |-> Recipe_scale,
     clean |-> Recipe_clean]

\* The rules of the Makefile: target |-> recipe.
Makefile ==
    [group |-> Recipe_group, cluster |-> Recipe_cluster,
     userpools |-> Recipe_userpools, storage |-> Recipe_storage,
     hub |-> Recipe_hub, scale |-> Recipe_scale, clean |-> Recipe_clean]

MakefileTargets == DOMAIN Makefile

ExpandCmd(env, c) ==
    [prog |-> c.prog, sub |-> c.sub, name |-> Expand(env, c.name),
     group |-> Expand(env, c.group), cluster |-> Expand(env, c.cluster),
     node_count |-> Expand(env, c.node_count)]

(***************************************************************************)
(* The cloud CLI and helm, as the recipes use them.                        *)
(***************************************************************************)

IsCount(s) == \E n \in 0..MaxNodeCount : ToString(n) = s
ParseCount(s) == CHOOSE n \in 0..MaxNodeCount : ToString(n) = s

\* The command succeeds in cloud state s.
CmdOk(s, c) ==
    CASE c.sub = "group create" -> TRUE
      [] c.sub = "aks create" -> s.group
      [] c.sub = "aks get-credentials" -> s.cluster
      [] c.sub = "aks nodepool add" ->
            s.cluster /\ s.gpuNodes = -1 /\ IsCount(c.node_count)
      [] c.sub = "storage account create" -> s.group
      [] c.sub = "storage container create" -> s.account
      [] c.sub = "upgrade --install" -> s.cluster /\ s.kubeconfig
      [] c.sub = "aks nodepool scale" ->
            s.cluster /\ s.gpuNodes # -1 /\ IsCount(c.node_count)
      [] c.sub = "group delete" -> s.group
      [] OTHER -> FALSE

\* The cloud state after the command succeeded.
CmdEffect(s, c) ==
    CASE c.sub = "group create" -> [s EXCEPT !.group = TRUE]
      [] c.sub = "aks create" -> [s EXCEPT !.cluster = TRUE]
      [] c.sub = "aks get-credentials" -> [s EXCEPT !.kubeconfig = TRUE]
      [] c.sub = "aks nodepool add" -> [s EXCEPT !.gpuNodes = ParseCount(c.node_count)]
      [] c.sub = "storage account create" -> [s EXCEPT !.account = TRUE]
      [] c.sub = "storage container create" -> [s EXCEPT !.container = TRUE]
      [] c.sub = "upgrade --install" -> [s EXCEPT !.hub = TRUE]
      [] c.sub = "aks nodepool scale" -> [s EXCEPT !.gpuNodes = ParseCount(c.node_count)]
      [] c.sub = "group delete" -> [NoCloud EXCEPT !.kubeconfig = s.kubeconfig]
      [] OTHER -> s

\* make runs the recipe's lines in order and stops at the first that fails.
\* run is <<cloud state, commands executed, all succeeded>>.
RECURSIVE RunRecipe(_, _, _)
RunRecipe(env, recipe, run) ==
    IF recipe = <<>> THEN run
    ELSE LET c == ExpandCmd(env, Head(recipe))
             ran == Append(run[2], c)
         IN  IF CmdOk(run[1], c)
             THEN RunRecipe(env, Tail(recipe), <<CmdEffect(run[1], c), ran, TRUE>>)
             ELSE <<run[1], ran, FALSE>>

\* `env make target`: the invocation's record and the cloud state it leaves.
MakeRun(s, env, target) ==
    IF target \in MakefileTargets
    THEN LET r == RunRecipe(env, Makefile[target], <<s, <<>>, TRUE>>)
         IN  [cloud |-> r[1],
              inv |-> [target |-> target, env |-> env, found |-> TRUE,
                       ok |-> r[3], cmds |-> r[2]]]
    ELSE \* make: *** No rule to make target
         [cloud |-> s,
          inv |-> [target |-> target, env |-> env, found |-> FALSE,
                   ok |-> FALSE, cmds |-> <<>>]]

(***************************************************************************)
(* The operator at the shell.                                              *)
(***************************************************************************)

NodeCountEnv(n) == [v \in {"NODE_COUNT"} |-> ToString(n)]
Envs == {NoEnv} \cup {NodeCountEnv(n) : n \in 0..MaxNodeCount}

\* The README's Deployment section, in order; the last line sets NODE_COUNT
\* to "your number of users".
ReadmeTargets == <<"resource-group", "cluster", "hub", "userpools", "scale">>

\* What the operator may type after `make`.
TypedTargets ==
    {"group", "cluster", "userpools", "storage", "hub", "scale", "clean",
     "resource-group"}

\* The operator types the next command of the README's sequence.
DocStep ==
    /\ docStep < Len(ReadmeTargets)
    /\ \E env \in Envs :
        /\ (env # NoEnv) <=> (ReadmeTargets[docStep + 1] = "scale")
        /\ env # NoEnv => env["NODE_COUNT"] # "0"
        /\ LET r == MakeRun(cloud, env, ReadmeTargets[docStep + 1])
           IN  /\ cloud' = r.cloud
               /\ last' = r.inv
               /\ docResults' = Append(docResults, r.inv.ok)
    /\ docStep' = docStep + 1
    /\ UNCHANGED typedOther
    /\ UNCHANGED notDeploy

\* The operator types any other make command.
AdHocMake ==
    /\ \E target \in TypedTargets, env \in Envs :
        LET r == MakeRun(cloud, env, target)
        IN  /\ cloud' = r.cloud
            /\ last' = r.inv
    /\ typedOther' = TRUE
    /\ UNCHANGED <<docStep, docResults>>
    /\ UNCHANGED notDeploy

NextDeploy == DocStep \/ AdHocMake

InitDeploy == IdleDeploy /\ IdleGateway /\ IdleSched /\ IdleNotebooks

SpecDeploy == InitDeploy /\ [][NextDeploy]_vars

\* C1: every make target of the README's deployment sequence is a rule of the
\* Makefile, so an operator who types exactly the documented sequence, in
\* order, sees every step succeed and ends with the hub release installed.
C1_DocSequenceCompletes ==
    (docStep = Len(ReadmeTargets) /\ ~typedOther) =>
        /\ \A i \in 1..Len(docResults) : docResults[i]
        /\ cloud.hub

\* C2: `NODE_COUNT=n make scale` hands n to --node-count of
\* `az aks nodepool scale`, and a scale that succeeds leaves the gpumanual
\* pool with exactly n nodes.
C2_ScaleReachesNodeCount ==
    (last.target = "scale" /\ last.found) =>
        /\ \A i \in 1..Len(last.cmds) :
              last.cmds[i].sub = "aks nodepool scale" =>
                  last.cmds[i].node_count = MakeVar(last.env, "NODE_COUNT")
        /\ last.ok => cloud.gpuNodes = ParseCount(MakeVar(last.env, "NODE_COUNT"))

SpecTargets == {"group", "cluster", "userpools", "storage", "hub", "scale", "clean"}

MaxImageLen == 2
\* The largest worker_cores and worker_memory (whole GiB) a user asks for.
MaxCoresIn == 17
MaxMemIn == 33

\* An image string is a sequence of tokens: name parts, ":" and "/".
ImageAlphabet == {"a", ":", "/"}

SingleuserImageName ==
    <<"mcr.microsoft.com", "/", "planetary-computer", "/", "gpu-pytorch">>
SingleuserImageTag == <<"2021.07.13.0">>

\* The chart starts the notebook server from name:tag, and the spawner
\* exports that string to the server as JUPYTER_IMAGE_SPEC.
JupyterImageSpec == SingleuserImageName \o <<":">> \o SingleuserImageTag

\* Mutant: the worker image default is not exported to the notebook server.
ExtraEnv_noImage == [v \in {} |-> <<>>]

\* singleuser.extraEnv, the entry the Dask Gateway client reads.
ExtraEnv == [DASK_GATEWAY__CLUSTER__OPTIONS__IMAGE |-> <<"{JUPYTER_IMAGE_SPEC}">>]

\* The environment of a process on the notebook server, and of one elsewhere.
Environ(origin) ==
    IF origin = "notebook"
    THEN [JUPYTER_IMAGE_SPEC |-> JupyterImageSpec] @@ ExtraEnv
    ELSE [v \in {} |-> <<>>]

\* The client fills {NAME} in its configured option values from os.environ.
RECURSIVE FormatTemplate(_, _)
FormatTemplate(t, environ) ==
    IF t = <<>> THEN <<>>
    ELSE (IF Head(t) = "{JUPYTER_IMAGE_SPEC}"
          THEN environ["JUPYTER_IMAGE_SPEC"]
          ELSE <<Head(t)>>) \o FormatTemplate(Tail(t), environ)

\* A memory quantity: whole GiB plus a fraction in units of 10^-7 GiB.
FracUnit == 10^7
FracInputs == {0, 5, FracUnit - 1}

(***************************************************************************)
(* deploy/config.yaml: cluster_options and option_handler                  *)
(***************************************************************************)

Min2(a, b) == IF a <= b THEN a ELSE b

\* n / d rounded to the nearest integer, ties to even (n >= 0, d > 0).
RoundHalfEven(n, d) ==
    LET q == n \div d
        r == n % d
    IN  IF 2 * r < d THEN q
        ELSE IF 2 * r > d THEN q + 1
        ELSE IF q % 2 = 0 THEN q ELSE q + 1

\* Float("worker_cores", 1, min=1, max=16), Float("worker_memory", 2, min=1,
\* max=32), String("image", default="pangeo/pangeo-notebook:latest").
DefaultCores == 1
CoresMin == 1
CoresMax == 16
DefaultMemory == 2
MemoryMin == 1
MemoryMax == 32
DefaultImage == <<"pangeo", "/", "pangeo-notebook", ":", "latest">>

\* The client: options configured locally (from the environment) are the
\* defaults of new_cluster, and its keyword arguments override them.
ClientOptions(call) ==
    LET environ == Environ(call.origin)
        key == "DASK_GATEWAY__CLUSTER__OPTIONS__IMAGE"
        local == key \in DOMAIN environ
    IN  [hasImage |-> call.hasImage \/ local,
         image |-> IF call.hasImage THEN call.image
                   ELSE IF local THEN FormatTemplate(environ[key], environ)
                   ELSE <<>>,
         cores |-> call.cores, memW |-> call.memW, memF |-> call.memF]

\* The gateway fills the fields the request leaves out with their defaults.
ParseOptions(sent) ==
    [image |-> IF sent.hasImage THEN sent.image ELSE DefaultImage,
     worker_cores |-> IF sent.cores = -1 THEN DefaultCores ELSE sent.cores,
     memW |-> IF sent.memW = -1 THEN DefaultMemory ELSE sent.memW,
     memF |-> IF sent.memW = -1 THEN 0 ELSE sent.memF]

\* Float(min=lo, max=hi) accepts lo <= w + f / 10^7 <= hi.
FloatInRange(w, f, lo, hi) == w >= lo /\ (w < hi \/ (w = hi /\ f = 0))

\* Mutant: the larger of the two, not the smaller.
WorkerCoresRequest_max(c) == 88 * (IF c >= 2 THEN c ELSE 2)

\* 0.88 * min(options.worker_cores / 2, 1), in units of 1/200 core.
WorkerCoresRequest(c) == 88 * Min2(c, 2)

\* options.worker_cores in the same unit.
WorkerCoresLimit(c) == 200 * c

\* "%fG" % x prints x with six decimals: the quantity in 10^-6 G.
\* 0.95 * (w + f / 10^7) = (950000 * w + 95 * f / 1000) / 10^6.
WorkerMemoryRequest(w, f) ==
    [micro |-> 950000 * w + RoundHalfEven(95 * f, 1000), unit |-> "G"]

WorkerMemoryLimit(w, f) ==
    [micro |-> 1000000 * w + RoundHalfEven(f, 10), unit |-> "G"]

HasColon(image) == \E i \in 1..Len(image) : image[i] = ":"

option_handler(options) ==
    IF ~HasColon(options.image)
    THEN [status |-> "error",
          error |-> "When specifying an image you must also provide a tag",
          config |-> NoConfig]
    ELSE [status |-> "ok", error |-> "",
          config |->
            [worker_cores |-> WorkerCoresRequest(options.worker_cores),
             worker_cores_limit |-> WorkerCoresLimit(options.worker_cores),
             worker_memory |-> WorkerMemoryRequest(options.memW, options.memF),
             worker_memory_limit |-> WorkerMemoryLimit(options.memW, options.memF),
             image |-> options.image]]

\* Options(...).parse(request), then handler=option_handler.
cluster_options(sent) ==
    LET options == ParseOptions(sent)
    IN  IF ~FloatInRange(options.worker_cores, 0, CoresMin, CoresMax)
        THEN [status |-> "error", error |-> "worker_cores out of range",
              config |-> NoConfig]
        ELSE IF ~FloatInRange(options.memW, options.memF, MemoryMin, MemoryMax)
        THEN [status |-> "error", error |-> "worker_memory out of range",
              config |-> NoConfig]
        ELSE option_handler(options)

\* The image strings a user types.
RECURSIVE ImagesOfLen(_)
ImagesOfLen(n) ==
    IF n = 0 THEN {<<>>}
    ELSE {Append(i, t) : i \in ImagesOfLen(n - 1), t \in ImageAlphabet}

RegistryPortImage == <<"localhost", ":", "5000", "/", "image">>

TypedImages ==
    UNION {ImagesOfLen(n) : n \in 0..MaxImageLen} \cup {RegistryPortImage}

Calls ==
    {[origin |-> o, hasImage |-> h, image |-> i, cores |-> c, memW |-> w,
      memF |-> f] :
        o \in {"notebook", "external"}, h \in BOOLEAN, i \in TypedImages,
        c \in -1..MaxCoresIn, w \in -1..MaxMemIn, f \in FracInputs}

\* A user calls new_cluster, on the notebook server or elsewhere.
NewCluster ==
    /\ gwPhase = "idle"
    /\ \E call \in Calls :
        /\ ~call.hasImage => call.image = <<>>
        /\ call.memW = -1 => call.memF = 0
        /\ gwCall' = call
        /\ gwSent' = ClientOptions(call)
    /\ gwPhase' = "submitted"
    /\ UNCHANGED gwReply
    /\ UNCHANGED notGateway

\* The gateway handles the request.
CreateCluster ==
    /\ gwPhase = "submitted"
    /\ gwReply' = cluster_options(gwSent)
    /\ gwPhase' = "done"
    /\ UNCHANGED <<gwCall, gwSent>>
    /\ UNCHANGED notGateway

\* The user is done with the cluster (or with the error).
CloseCluster ==
    /\ gwPhase = "done"
    /\ gwPhase' = "idle"
    /\ gwCall' = NoCall
    /\ gwSent' = NoOptions
    /\ gwReply' = NoReply
    /\ UNCHANGED notGateway

NextGateway == NewCluster \/ CreateCluster \/ CloseCluster

InitGateway == IdleDeploy /\ IdleGateway /\ IdleSched /\ IdleNotebooks

SpecGateway == InitGateway /\ [][NextGateway]_vars

\* An image reference carries a tag when a ":" follows its last "/",
\* with a name before it and a tag after it.
HasTag(image) ==
    \E i \in 2..(Len(image) - 1) :
        /\ image[i] = ":"
        /\ image[i - 1] \notin {":", "/"}
        /\ \A j \in (i + 1)..Len(image) : image[j] \notin {":", "/"}

\* C4: option_handler accepts an image only when it carries a tag: an image
\* without a tag gets the ValueError and no worker configuration, and every
\* image in a returned configuration has the form name:tag.
C4_ImageNeedsTag ==
    gwPhase = "done" =>
        /\ gwReply.status = "ok" => HasTag(gwReply.config.image)
        /\ (gwSent.hasImage /\ ~HasTag(gwSent.image)) => gwReply.status = "error"

\* 0.88 core in units of 1/200 core.
CoresRequestCap == 176

\* C5: a worker configuration is returned only for worker_cores in [1, 16]
\* and worker_memory in [1, 32], and in it the CPU request exceeds neither
\* the CPU limit nor 0.88 core and the memory request does not exceed the
\* memory limit.
C5_ResourceBounds ==
    (gwPhase = "done" /\ gwReply.status = "ok") =>
        LET o == ParseOptions(gwSent)
            c == gwReply.config
        IN  /\ o.worker_cores >= 1 /\ o.worker_cores <= 16
            /\ o.memW >= 1 /\ 10^7 * o.memW + o.memF <= 32 * 10^7
            /\ c.worker_cores <= c.worker_cores_limit
            /\ c.worker_cores <= CoresRequestCap
            /\ c.worker_cores_limit = 200 * o.worker_cores
            /\ c.worker_memory.unit = "G" /\ c.worker_memory_limit.unit = "G"
            /\ c.worker_memory.micro <= c.worker_memory_limit.micro

\* The largest cores and a memory with a seventh decimal were accepted.
C5_Witness ==
    /\ gwPhase = "done" /\ gwReply.status = "ok"
    /\ gwSent.cores = 16 /\ gwSent.memW = 31 /\ gwSent.memF = 10^7 - 1
    /\ gwReply.config.worker_cores = CoresRequestCap

Taint(k, v) == [key |-> k, value |-> v, effect |-> "NoSchedule"]

\* Node pools.  core and gpumanual are the Makefile's; the worker pools are
\* the ones the values file's comments speak of, with the taints it names,
\* and one more pool whose nodes are cordoned off by a further taint.
Pools == {"core", "gpumanual", "worker", "workerslash", "workerspot", "workerheld"}

PoolLabels(pool) ==
    CASE pool = "core" -> {<<"hub.jupyter.org/node-purpose", "core">>}
      [] pool = "gpumanual" ->
            {<<"hub.jupyter.org/node-purpose", "user">>,
             <<"hub.jupyter.org/pool-name", "user-alpha-pool">>,
             <<"computetype", "gpu">>}
      [] OTHER -> {<<"k8s.dask.org/dedicated", "worker">>}

PoolTaints(pool) ==
    CASE pool = "core" -> {}
      [] pool = "gpumanual" -> {Taint("hub.jupyter.org_dedicated", "user")}
      [] pool = "worker" -> {Taint("k8s.dask.org_dedicated", "worker")}
      [] pool = "workerslash" -> {Taint("k8s.dask.org/dedicated", "worker")}
      [] pool = "workerspot" ->
            {Taint("k8s.dask.org/dedicated", "worker"),
             Taint("k8s.dask.org_dedicated", "worker"),
             Taint("kubernetes.azure.com/scalesetpriority", "spot")}
      [] pool = "workerheld" ->
            {Taint("k8s.dask.org_dedicated", "worker"),
             Taint("node.kubernetes.io/unschedulable", "")}

\* Mutant: worker pods carry no node affinity.
WorkerNodeAffinity_none == {}

\* requiredDuringSchedulingIgnoredDuringExecution.nodeSelectorTerms: a set of
\* terms, each a set of match expressions.
WorkerNodeAffinity ==
    {{[key |-> "k8s.dask.org/dedicated", operator |-> "In", values |-> {"worker"}]}}

WorkerTolerations ==
    {[key |-> "k8s.dask.org/dedicated", operator |-> "Equal", value |-> "worker",
      effect |-> "NoSchedule"],
     [key |-> "k8s.dask.org_dedicated", operator |-> "Equal", value |-> "worker",
      effect |-> "NoSchedule"],
     [key |-> "kubernetes.azure.com/scalesetpriority", operator |-> "Equal",
      value |-> "spot", effect |-> "NoSchedule"]}

\* The scheduler's reading of the pod spec.
MatchesExpression(labels, e) ==
    e.operator = "In" /\ \E l \in labels : l[1] = e.key /\ l[2] \in e.values

\* No required terms: every node matches; otherwise some term must match.
MatchesAffinity(labels, terms) ==
    terms = {} \/ \E t \in terms : \A e \in t : MatchesExpression(labels, e)

Tolerates(tolerations, taint) ==
    \E t \in tolerations :
        /\ t.operator = "Equal"
        /\ t.key = taint.key /\ t.value = taint.value /\ t.effect = taint.effect

Feasible(pool) ==
    /\ MatchesAffinity(PoolLabels(pool), WorkerNodeAffinity)
    /\ \A taint \in PoolTaints(pool) : Tolerates(WorkerTolerations, taint)

\* A node of some pool joins the cluster.
AddNode ==
    /\ \E n \in 1..MaxNodes, pool \in Pools :
        /\ nodes[n] = "none"
        /\ nodes' = [nodes EXCEPT ![n] = pool]
    /\ UNCHANGED pods
    /\ UNCHANGED notSched

\* A node leaves (scale-down, spot eviction): its pods are pending again.
RemoveNode ==
    /\ \E n \in 1..MaxNodes :
        /\ nodes[n] # "none"
        /\ nodes' = [nodes EXCEPT ![n] = "none"]
        /\ pods' = [p \in 1..MaxPods |-> IF pods[p] = n THEN 0 ELSE pods[p]]
    /\ UNCHANGED notSched

\* The gateway creates a worker pod from backend.worker.extraPodConfig.
CreateWorkerPod ==
    /\ \E p \in 1..MaxPods :
        /\ pods[p] = -1
        /\ pods' = [pods EXCEPT ![p] = 0]
    /\ UNCHANGED nodes
    /\ UNCHANGED notSched

\* The scheduler binds a pending worker pod to a feasible node.
SchedulePod ==
    /\ \E p \in 1..MaxPods, n \in 1..MaxNodes :
        /\ pods[p] = 0
        /\ nodes[n] # "none"
        /\ Feasible(nodes[n])
        /\ pods' = [pods EXCEPT ![p] = n]
    /\ UNCHANGED nodes
    /\ UNCHANGED notSched

\* The cluster shuts a worker down.
DeleteWorkerPod ==
    /\ \E p \in 1..MaxPods :
        /\ pods[p] # -1
        /\ pods' = [pods EXCEPT ![p] = -1]
    /\ UNCHANGED nodes
    /\ UNCHANGED notSched

NextSched ==
    AddNode \/ RemoveNode \/ CreateWorkerPod \/ SchedulePod \/ DeleteWorkerPod

InitSched == IdleDeploy /\ IdleGateway /\ IdleSched /\ IdleNotebooks

SpecSched == InitSched /\ [][NextSched]_vars

WorkerPoolTaints ==
    {Taint("k8s.dask.org/dedicated", "worker"),
     Taint("k8s.dask.org_dedicated", "worker"),
     Taint("kubernetes.azure.com/scalesetpriority", "spot")}

\* C7: every node that runs a Dask worker pod carries the label
\* k8s.dask.org/dedicated=worker, and worker pods tolerate the worker pool's
\* three NoSchedule taints (and run on no node with a taint they do not
\* tolerate).
C7_WorkersOnWorkerPool ==
    /\ \A p \in 1..MaxPods :
          pods[p] >= 1 =>
              /\ nodes[pods[p]] # "none"
              /\ <<"k8s.dask.org/dedicated", "worker">> \in PoolLabels(nodes[pods[p]])
              /\ \A taint \in PoolTaints(nodes[pods[p]]) :
                    Tolerates(WorkerTolerations, taint)
    /\ \A taint \in WorkerPoolTaints : Tolerates(WorkerTolerations, taint)

\* A worker runs on a spot node with all three taints while a core node,
\* which has no taint at all, is up.
C7_Witness ==
    \E p \in 1..MaxPods, n \in 1..MaxNodes :
        /\ pods[p] >= 1 /\ nodes[pods[p]] = "workerspot"
        /\ nodes[n] = "core"

(***************************************************************************)
(* The notebooks: STAC items, rasters and their alignment                  *)
(*                                                                         *)
(* Coordinates are fixed-point numbers in tenths of a CRS unit; pixel      *)
(* values are left out (no statement here reads them).                     *)
(***************************************************************************)

\* The most label items in the training catalog and scenes in a search.
MaxLabels == 2
MaxScenes == 2

Max2(a, b) == IF a >= b THEN a ELSE b

Rect(x0, x1, y0, y1) == [x0 |-> x0, x1 |-> x1, y0 |-> y0, y1 |-> y1]

\* shapely: .area and .intersection of two footprints.
Area(r) ==
    IF r.x1 > r.x0 /\ r.y1 > r.y0 THEN (r.x1 - r.x0) * (r.y1 - r.y0) ELSE 0

Intersection(a, b) ==
    Rect(Max2(a.x0, b.x0), Min2(a.x1, b.x1), Max2(a.y0, b.y0), Min2(a.y1, b.y1))

\* intersection(label_shape).area / label_shape.area > 0.9
Covers(item, label_item) ==
    10 * Area(Intersection(item.geom, label_item.geom)) > 9 * Area(label_item.geom)

\* Mutant: the cloudiest scene first.
CloudBefore_desc(a, b) == a.cloud >= b.cloud

\* key=lambda item: EOExtension.ext(item).cloud_cover; a stays before b.
CloudBefore(a, b) == a.cloud <= b.cloud

\* sorted(): stable, least key first.
RECURSIVE InsertSorted(_, _)
InsertSorted(item, srt) ==
    IF srt = <<>> THEN <<item>>
    ELSE IF CloudBefore(Head(srt), item)
         THEN <<Head(srt)>> \o InsertSorted(item, Tail(srt))
         ELSE <<item>> \o srt

RECURSIVE sorted(_)
sorted(items) ==
    IF items = <<>> THEN <<>>
    ELSE InsertSorted(items[Len(items)], sorted(SubSeq(items, 1, Len(items) - 1)))

\* sorted(...)[0] of an empty list raises IndexError.
First(items) ==
    IF items = <<>> THEN [raised |-> "IndexError", item |-> NoScene]
    ELSE [raised |-> "", item |-> Head(sorted(items))]

find_match(label_item, sentinel_items) ==
    LET covers(item) == Covers(item, label_item)
        items2 == SelectSeq(sentinel_items, covers)
    IN  First(items2)

\* .squeeze(): dimensions of length one are dropped.
Squeeze(shape) ==
    LET keep(d) == d # 1
    IN  SelectSeq(shape, keep)

\* shape[1:]
Rest(shape) == IF shape = <<>> THEN <<>> ELSE Tail(shape)

\* rioxarray.open_rasterio(href).squeeze(): one band; x and y label the
\* pixel centres.  hw keeps the lengths of the y and x dimensions.
OpenLabels(chip) ==
    [shape |-> Squeeze(<<1, chip.h, chip.w>>),
     hw |-> <<chip.h, chip.w>>,
     x |-> [i \in 1..chip.w |-> chip.x0 + 10 * chip.res * (i - 1) + 5 * chip.res],
     y |-> [j \in 1..chip.h |-> chip.ytop - 10 * chip.res * (j - 1) - 5 * chip.res]]

\* labels.rio.bounds(): the raster's outer edges.
RioBounds(chip) ==
    [minx |-> chip.x0, miny |-> chip.ytop - 10 * chip.res * chip.h,
     maxx |-> chip.x0 + 10 * chip.res * chip.w, maxy |-> chip.ytop]

\* tuple(round(x, 0) for x in bounds)
RoundBounds(b) ==
    [minx |-> 10 * RoundHalfEven(b.minx, 10), miny |-> 10 * RoundHalfEven(b.miny, 10),
     maxx |-> 10 * RoundHalfEven(b.maxx, 10), maxy |-> 10 * RoundHalfEven(b.maxy, 10)]

FloorTo(v, m) == (v \div m) * m
CeilTo(v, m) == ((v + m - 1) \div m) * m

\* stackstac.stack(item, assets=..., resolution=10, bounds=..., epsg=...)
\* .squeeze(): one time step, one band per asset; the bounds are snapped
\* outwards to whole pixels of 10 units and x, y label the pixels' top-left
\* corners.
Stack(bounds, assets) ==
    LET px == 100
        minx == FloorTo(bounds.minx, px)
        maxx == CeilTo(bounds.maxx, px)
        miny == FloorTo(bounds.miny, px)
        maxy == CeilTo(bounds.maxy, px)
        W == (maxx - minx) \div px
        H == (maxy - miny) \div px
    IN  [shape |-> Squeeze(<<1, Len(assets), H, W>>),
         hw |-> <<H, W>>,
         x |-> [i \in 1..W |-> minx + px * (i - 1)],
         y |-> [j \in 1..H |-> maxy - px * (j - 1)]]

\* Mutant: the shapes are not compared.
ShapesAgree_unchecked(data, labels) == TRUE

\* data.shape[1:] == labels.shape
ShapesAgree(data, labels) == Rest(data.shape) = labels.shape

NoResult == [raised |-> "", matched |-> NoScene, data |-> NoArray, labels |-> NoArray]

\* get_item from the call of find_match on, labels being the raster the call
\* has opened: the (data, labels) pair, or the exception that ends the call.
\* matched records find_match's answer also when the assertion fails.
get_item_after_open(labels, label_item, sentinel_items, assets) ==
    LET m == find_match(label_item, sentinel_items)
        data == Stack(RoundBounds(RioBounds(label_item)), assets)
    IN  IF m.raised # ""
        THEN [NoResult EXCEPT !.raised = m.raised]
        ELSE IF ~ShapesAgree(data, labels)
        THEN [NoResult EXCEPT !.raised = "AssertionError", !.matched = m.item]
        ELSE [raised |-> "", matched |-> m.item,
              data |-> [data EXCEPT !.x = labels.x, !.y = labels.y],
              labels |-> labels]

\* get_item, run from its first line to its last with nothing in between.
get_item(label_item, sentinel_items, assets) ==
    get_item_after_open(OpenLabels(label_item), label_item, sentinel_items, assets)

\* Mutant: find_match filters and sorts in place the list it was handed.
ListAfterMatch_inPlace(sentinel_items, label_item) ==
    LET covers(item) == Covers(item, label_item)
    IN  sorted(SelectSeq(sentinel_items, covers))

\* The list find_match was handed, after the call: the comprehension and
\* sorted() build new lists, the argument is as it was.
ListAfterMatch(sentinel_items, label_item) == sentinel_items

TrainingAssets == <<"B03", "B04", "B05">>
ExploreAssets == <<"B02", "B03", "B04", "B05", "B06", "B07", "B09">>

\* N_SCENES = 100
N_SCENES == 100

\* label_links[18]: which link of the catalog the exploration notebook
\* follows, scaled to the catalogs of this model (the first link).
ExploreLink == 1

\* Mutant: the shift goes the other way.
HalfPixelFix_wrongSign(data) ==
    [data EXCEPT
        !.y = [j \in DOMAIN data.y |-> 10 * RoundHalfEven(data.y[j] + 50, 10)],
        !.x = [i \in DOMAIN data.x |-> 10 * RoundHalfEven(data.x[i] - 50, 10)]]

\* data.assign_coords(y=(ds.y - 5).round(), x=(ds.x + 5).round())
HalfPixelFix(data) ==
    [data EXCEPT
        !.y = [j \in DOMAIN data.y |-> 10 * RoundHalfEven(data.y[j] - 50, 10)],
        !.x = [i \in DOMAIN data.x |-> 10 * RoundHalfEven(data.x[i] + 50, 10)]]

(***************************************************************************)
(* What the catalogs may hold.                                             *)
(***************************************************************************)

Chip(x0, ytop, res, w, h) ==
    [x0 |-> x0, ytop |-> ytop, res |-> res, w |-> w, h |-> h,
     geom |-> Rect(0, 20, 0, 1)]

\* Label chips: on the 10-unit grid; off it by a fraction of a unit, with a
\* footprint half as wide as the others'; with 20-unit pixels; a single row
\* of pixels.
Chips ==
    {Chip(1000, 2000, 10, 3, 2),
     [Chip(1003, 2004, 10, 3, 2) EXCEPT !.geom = Rect(0, 10, 0, 1)],
     Chip(1000, 2000, 20, 3, 2), Chip(1000, 2000, 10, 3, 1)}

\* Scenes: covering the whole of a label footprint, 95% of the wide one,
\* exactly 90% of the wide one or of the narrow one, 80% of the narrow one;
\* clear or cloudy.
Scenes ==
    {[geom |-> Rect(x0, 20, 0, 1), cloud |-> c] : x0 \in {0, 1, 2}, c \in {0, 1}}

RECURSIVE SeqsOfLen(_, _)
SeqsOfLen(S, n) ==
    IF n = 0 THEN {<<>>}
    ELSE {Append(q, e) : q \in SeqsOfLen(S, n - 1), e \in S}

SeqsUpTo(S, n) == UNION {SeqsOfLen(S, k) : k \in 0..n}

InitNotebooks ==
    /\ IdleDeploy /\ IdleGateway /\ IdleSched
    /\ stac \in [catalog : SeqsUpTo(Chips, MaxLabels), scenes : SeqsUpTo(Scenes, MaxScenes)]
    /\ ex = NewExploreKernel
    /\ tr = NewTrainingKernel

(***************************************************************************)
(* crop-landcover-explore.ipynb, run cell by cell from the top.  A cell    *)
(* that raises ends the run.                                               *)
(***************************************************************************)

\* Mutant: a kernel that runs whichever cell is picked, whatever ran before.
ExploreRuns_anyOrder(c) == ex.failed = ""

\* The code cells run from the top of the notebook down, each once the one
\* above it has returned, and none after a cell that raised.
ExploreRuns(c) == ex.cell = c /\ ex.failed = ""

\* The kernel after a cell ran, whether it raised or not: the cells run so
\* far, in the order they ran.
Ran(kernel, name) == [kernel EXCEPT !.ran = Append(@, name)]

\* training_catalog = pystac.read_file(...); label_links = get_item_links()
ExOpenCatalog ==
    /\ ExploreRuns(1)
    /\ ex' = Ran([ex EXCEPT !.cell = 2, !.label_links = stac.catalog], "read_file")
    /\ UNCHANGED <<stac, tr>>
    /\ UNCHANGED notNotebooks

\* label_item = label_links[18].resolve_stac_object().target
ExFetchItem ==
    /\ ExploreRuns(2)
    /\ ex' = Ran(IF ExploreLink \in DOMAIN ex.label_links
                 THEN [ex EXCEPT !.cell = 3, !.label_item = ex.label_links[ExploreLink]]
                 ELSE [ex EXCEPT !.failed = "IndexError"],
                 "label_item")
    /\ UNCHANGED <<stac, tr>>
    /\ UNCHANGED notNotebooks

\* labels = rioxarray.open_rasterio(label_item.assets["labels"].href).squeeze()
ExLoadRaster ==
    /\ ExploreRuns(3)
    /\ ex' = Ran([ex EXCEPT !.cell = 4, !.labels = OpenLabels(ex.label_item)],
                 "open_rasterio")
    /\ UNCHANGED <<stac, tr>>
    /\ UNCHANGED notNotebooks

\* items = stac_client.search(...).get_all_items()
ExSearch ==
    /\ ExploreRuns(4)
    /\ ex' = Ran([ex EXCEPT !.cell = 5, !.items = stac.scenes], "search")
    /\ UNCHANGED <<stac, tr>>
    /\ UNCHANGED notNotebooks

\* sentinel_item = sorted(items, key=cloud_cover)[0]
ExSelectScene ==
    /\ ExploreRuns(5)
    /\ LET f == First(ex.items)
       IN  ex' = Ran(IF f.raised # ""
                     THEN [ex EXCEPT !.failed = f.raised]
                     ELSE [ex EXCEPT !.cell = 6, !.sentinel_item = f.item],
                     "sorted")
    /\ UNCHANGED <<stac, tr>>
    /\ UNCHANGED notNotebooks

\* data = stackstac.stack(signed_item, bounds=labels.rio.bounds(), ...);
\* assert data.shape[1:] == labels.shape; data = data.compute()
ExStack ==
    /\ ExploreRuns(6)
    /\ LET data == Stack(RioBounds(ex.label_item), ExploreAssets)
       IN  ex' = Ran(IF ShapesAgree(data, ex.labels)
                     THEN [ex EXCEPT !.cell = 7, !.data = data, !.computed = TRUE]
                     ELSE [ex EXCEPT !.failed = "AssertionError", !.data = data],
                     "stack")
    /\ UNCHANGED <<stac, tr>>
    /\ UNCHANGED notNotebooks

\* data2 = data.assign_coords(...)
ExFixCoords ==
    /\ ExploreRuns(7)
    /\ ex' = Ran([ex EXCEPT !.cell = 8, !.data2 = HalfPixelFix(ex.data)], "assign_coords")
    /\ UNCHANGED <<stac, tr>>
    /\ UNCHANGED notNotebooks

\* assert (data2.x.data == labels.x.data).all(); the same for y
ExAssertCoords ==
    /\ ExploreRuns(8)
    /\ ex' = Ran(IF ex.data2.x = ex.labels.x /\ ex.data2.y = ex.labels.y
                 THEN [ex EXCEPT !.cell = 9]
                 ELSE [ex EXCEPT !.failed = "AssertionError"],
                 "assert_coords")
    /\ UNCHANGED <<stac, tr>>
    /\ UNCHANGED notNotebooks

\* X = data2.stack(pixel=...).T; y = labels.stack(pixel=...); clf.fit(...)
ExFit ==
    /\ ExploreRuns(9)
    /\ ex' = Ran([ex EXCEPT !.cell = 10, !.fitted = TRUE], "fit")
    /\ UNCHANGED <<stac, tr>>
    /\ UNCHANGED notNotebooks

ExploreOver == ex.cell = 10 \/ ex.failed # ""

(***************************************************************************)
(* The training notebook, opened after the exploration notebook.           *)
(***************************************************************************)

TrainingRuns(c) == ExploreOver /\ tr.cell = c /\ tr.failed = ""

Take(q, n) == SubSeq(q, 1, Min2(n, Len(q)))

\* links = training_catalog.get_item_links()[:N_SCENES]; label_items = [...]
TrLoadItems ==
    /\ TrainingRuns(1)
    /\ tr' = [tr EXCEPT !.cell = 2, !.label_items = Take(stac.catalog, N_SCENES)]
    /\ UNCHANGED <<stac, ex>>
    /\ UNCHANGED notNotebooks

\* sentinel_items = list(search.get_all_items())
TrSearch ==
    /\ TrainingRuns(2)
    /\ tr' = [tr EXCEPT !.cell = 3, !.sentinel_items = stac.scenes]
    /\ UNCHANGED <<stac, ex>>
    /\ UNCHANGED notNotebooks

\* Xys = [get_item_(label_item, ...) for label_item in label_items];
\* Xys = dask.persist(*Xys): one task per label item, all handed to the
\* cluster.
TrPersist ==
    /\ TrainingRuns(3)
    /\ tr' = [tr EXCEPT
                !.cell = 4,
                !.tasks = [i \in DOMAIN tr.label_items |->
                              [state |-> "pending", labels |-> NoArray,
                               result |-> NoResult]]]
    /\ UNCHANGED <<stac, ex>>
    /\ UNCHANGED notNotebooks

\* A worker starts one of the delayed get_item calls: the call opens the
\* raster of its own label item.  overlapped records that a call started
\* while another was in progress.
StartTask ==
    /\ \E i \in DOMAIN tr.tasks :
        /\ tr.tasks[i].state = "pending"
        /\ tr' = [tr EXCEPT
                    !.tasks[i].state = "running",
                    !.tasks[i].labels = OpenLabels(tr.label_items[i]),
                    !.overlapped =
                        @ \/ \E j \in DOMAIN tr.tasks : tr.tasks[j].state = "running"]
    /\ UNCHANGED <<stac, ex>>
    /\ UNCHANGED notNotebooks

\* A started call runs to its end: find_match over the list every call was
\* handed, the stack, the assertion, and the pair or the exception.  done
\* lists the calls in the order they ended.
FinishTask ==
    /\ \E i \in DOMAIN tr.tasks :
        /\ tr.tasks[i].state = "running"
        /\ tr' = [tr EXCEPT
                    !.tasks[i].state = "finished",
                    !.tasks[i].result =
                        get_item_after_open(tr.tasks[i].labels, tr.label_items[i],
                                            tr.sentinel_items, TrainingAssets),
                    !.sentinel_items = ListAfterMatch(@, tr.label_items[i]),
                    !.done = Append(@, i)]
    /\ UNCHANGED <<stac, ex>>
    /\ UNCHANGED notNotebooks

\* Mutant: the pairs in the order the calls ended.
Gather_asCompleted(kernel) ==
    [k \in DOMAIN kernel.done |->
        <<kernel.tasks[kernel.done[k]].result.data,
          kernel.tasks[kernel.done[k]].result.labels>>]

\* dask.compute(*Xys): one pair per delayed call, in the order of the
\* arguments, which is the order of label_items.
Gather(kernel) ==
    [i \in DOMAIN kernel.tasks |->
        <<kernel.tasks[i].result.data, kernel.tasks[i].result.labels>>]

\* Mutant: a load that returns the pairs of the calls that returned one and
\* leaves out the calls that raised.
TrCompute_skipFailed ==
    /\ TrainingRuns(4)
    /\ \A i \in DOMAIN tr.tasks : tr.tasks[i].state = "finished"
    /\ LET returned(task) == task.result.raised = ""
           pair(task) == <<task.result.data, task.result.labels>>
           kept == SelectSeq(tr.tasks, returned)
       IN  tr' = [tr EXCEPT !.cell = 5, !.Xys = [k \in DOMAIN kept |-> pair(kept[k])]]
    /\ UNCHANGED <<stac, ex>>
    /\ UNCHANGED notNotebooks

\* Xys = dask.compute(*Xys): the results in the order of the tasks, or the
\* exception of a task that failed.
TrCompute ==
    /\ TrainingRuns(4)
    /\ \/ /\ \A i \in DOMAIN tr.tasks :
                tr.tasks[i].state = "finished" /\ tr.tasks[i].result.raised = ""
          /\ tr' = [tr EXCEPT
                      !.cell = 5,
                      !.Xys = Gather(tr)]
       \/ \E i \in DOMAIN tr.tasks :
            /\ tr.tasks[i].state = "finished" /\ tr.tasks[i].result.raised # ""
            /\ tr' = [tr EXCEPT !.failed = tr.tasks[i].result.raised]
    /\ UNCHANGED <<stac, ex>>
    /\ UNCHANGED notNotebooks

NextNotebooks ==
    \/ ExOpenCatalog \/ ExFetchItem \/ ExLoadRaster \/ ExSearch \/ ExSelectScene
    \/ ExStack \/ ExFixCoords \/ ExAssertCoords \/ ExFit
    \/ TrLoadItems \/ TrSearch \/ TrPersist \/ StartTask \/ FinishTask \/ TrCompute

SpecNotebooks == InitNotebooks /\ [][NextNotebooks]_vars

\* The share of the label's footprint a scene covers exceeds 90%.
OverNinety(scene, label_item) ==
    LET lx0 == label_item.geom.x0
        lx1 == label_item.geom.x1
        ly0 == label_item.geom.y0
        ly1 == label_item.geom.y1
        ix == Min2(scene.geom.x1, lx1) - Max2(scene.geom.x0, lx0)
        iy == Min2(scene.geom.y1, ly1) - Max2(scene.geom.y0, ly0)
        shared == IF ix > 0 /\ iy > 0 THEN ix * iy ELSE 0
    IN  10 * shared > 9 * (lx1 - lx0) * (ly1 - ly0)

\* C8: the item find_match returns is one of sentinel_items, covers more
\* than 90% of the label chip's area, and has a cloud cover no greater than
\* that of any item of sentinel_items covering more than 90%; the exploration
\* notebook's choice is an item of least cloud cover among all the items.
C8_FindMatchBest ==
    /\ \A i \in DOMAIN tr.tasks :
          (tr.tasks[i].state = "finished" /\ tr.tasks[i].result.raised # "IndexError") =>
              LET m == tr.tasks[i].result.matched
                  label_item == tr.label_items[i]
              IN  /\ \E k \in DOMAIN tr.sentinel_items : tr.sentinel_items[k] = m
                  /\ OverNinety(m, label_item)
                  /\ \A k \in DOMAIN tr.sentinel_items :
                        OverNinety(tr.sentinel_items[k], label_item) =>
                            m.cloud <= tr.sentinel_items[k].cloud
    /\ ex.cell >= 6 =>
          /\ \E k \in DOMAIN ex.items : ex.items[k] = ex.sentinel_item
          /\ \A k \in DOMAIN ex.items : ex.sentinel_item.cloud <= ex.items[k].cloud

\* A clear scene covering exactly 90% was passed over for a cloudy one
\* covering 95%, which a clear scene covering everything would have beaten
\* had it been there.
C8_Witness ==
    /\ tr.sentinel_items =
          <<[geom |-> Rect(2, 20, 0, 1), cloud |-> 0],
            [geom |-> Rect(1, 20, 0, 1), cloud |-> 1]>>
    /\ \E i \in DOMAIN tr.tasks :
          /\ tr.tasks[i].state = "finished"
          /\ tr.tasks[i].result.matched = tr.sentinel_items[2]
    /\ ex.cell >= 6 /\ ex.sentinel_item = ex.items[1]

\* C9: get_item returns a (data, labels) pair only when data.shape[1:] ==
\* labels.shape, the imagery then having the label chip's height and width;
\* when the shapes differ it raises AssertionError and returns no pair; the
\* exploration notebook computes the imagery only after the same assertion.
C9_ShapesMatch ==
    /\ \A i \in DOMAIN tr.tasks :
          tr.tasks[i].state = "finished" =>
              LET r == tr.tasks[i].result
                  chip == tr.label_items[i]
              IN  /\ r.raised = "" =>
                        /\ r.data # NoArray /\ r.labels # NoArray
                        /\ Rest(r.data.shape) = r.labels.shape
                        /\ r.data.hw = <<chip.h, chip.w>>
                  /\ r.raised # "" => r.data = NoArray /\ r.labels = NoArray
                  /\ (r.raised # "IndexError" /\ chip.res # 10) =>
                        r.raised = "AssertionError"
    /\ \A i \in DOMAIN tr.Xys :
          Rest(tr.Xys[i][1].shape) = tr.Xys[i][2].shape
    /\ ex.computed =>
          /\ Rest(ex.data.shape) = ex.labels.shape
          /\ ex.data.hw = <<ex.label_item.h, ex.label_item.w>>

\* One call returned a pair for a chip whose bounds needed rounding, and
\* another, for a chip of 20-unit pixels, ended in the AssertionError.
C9_Witness ==
    /\ Len(tr.tasks) = 2
    /\ tr.tasks[1].state = "finished" /\ tr.tasks[1].result.raised = ""
    /\ tr.label_items[1].x0 = 1003
    /\ tr.tasks[2].state = "finished" /\ tr.tasks[2].result.raised = "AssertionError"
    /\ ex.failed = "AssertionError"

\* The imagery's coordinates are half a 10-unit pixel off the labels'.
HalfPixelOff ==
    /\ DOMAIN ex.data.x = DOMAIN ex.labels.x
    /\ DOMAIN ex.data.y = DOMAIN ex.labels.y
    /\ \A i \in DOMAIN ex.data.x : ex.data.x[i] = ex.labels.x[i] - 50
    /\ \A j \in DOMAIN ex.data.y : ex.data.y[j] = ex.labels.y[j] + 50

\* C10: once the exploration notebook has applied the half-pixel correction,
\* imagery coordinates that were half a pixel off the labels' equal the
\* labels' coordinates element for element.
C10_HalfPixelCorrection ==
    (ex.cell >= 8 /\ HalfPixelOff) =>
        /\ ex.data2.x = ex.labels.x
        /\ ex.data2.y = ex.labels.y

C10_Witness ==
    /\ ex.cell = 9 /\ ex.failed = ""
    /\ HalfPixelOff
    /\ Len(ex.data2.x) = 3 /\ Len(ex.data2.y) = 2
    /\ ex.data2.x = ex.labels.x /\ ex.data2.y = ex.labels.y

\* The slice [:N_SCENES] of a list of N_SCENES + 1 links is its first
\* N_SCENES links, in their order.
SliceKeepsFirst ==
    Take([k \in 1..(N_SCENES + 1) |-> k], N_SCENES) = [k \in 1..N_SCENES |-> k]

SequentialResults ==
    \A i \in DOMAIN tr.tasks :
        tr.tasks[i].state = "finished" =>
            tr.tasks[i].result = get_item(tr.label_items[i], stac.scenes, TrainingAssets)

\* A step of one of the calls.
TaskStep == DOMAIN tr'.tasks = DOMAIN tr.tasks /\ tr'.tasks # tr.tasks

\* C12: the parallel get_item calls need no lock: a step of a call changes
\* the state of that call only, leaving sentinel_items, label_items, the
\* catalogs and every other call as they were, and in every interleaving
\* each call ends with the result it has when the calls run one after
\* another.
C12_TasksIndependent ==
    [][TaskStep =>
          /\ tr'.sentinel_items = tr.sentinel_items
          /\ tr'.label_items = tr.label_items
          /\ stac' = stac
          /\ tr'.Xys = tr.Xys
          /\ \E i \in DOMAIN tr.tasks :
                /\ \A j \in DOMAIN tr.tasks \ {i} : tr'.tasks[j] = tr.tasks[j]
                /\ tr'.tasks[i].state = "finished" =>
                      tr'.tasks[i].result =
                          get_item(tr.label_items[i], stac.scenes, TrainingAssets)]_vars

\* Two calls were in progress at once, the second ended first, and the two
\* ended with different results, each the one of a run alone.
C12_Witness ==
    /\ tr.overlapped
    /\ tr.done = <<2, 1>>
    /\ tr.tasks[1].result.raised = "" /\ tr.tasks[2].result.raised = ""
    /\ tr.tasks[1].result # tr.tasks[2].result
    /\ Len(tr.sentinel_items) = 2
    /\ SequentialResults

\* The steps in the order claimed: open the label catalog, fetch a label
\* item, load its raster, search the Planetary Computer, choose the scene
\* the stack consumes, stack it onto the label chip, fit the estimator.
ClaimedOrder ==
    <<"read_file", "label_item", "open_rasterio", "search", "sorted", "stack", "fit">>

ClaimedSteps == {ClaimedOrder[k] : k \in DOMAIN ClaimedOrder}

\* C13: in the exploration notebook the label catalog is opened before a
\* label item is fetched, the item before its raster is loaded, the raster
\* before the Planetary Computer search, the search before the imagery is
\* stacked onto the label chip, and the stack before the estimator is fitted:
\* the steps that have run are the first so many of the claimed order, each
\* run once; and a step that has run found the values it consumes already
\* assigned.
C13_StepsInOrder ==
    LET claimed(c) == c \in ClaimedSteps
        steps == SelectSeq(ex.ran, claimed)
        n == Len(steps)
    IN  /\ n <= Len(ClaimedOrder)
        /\ steps = SubSeq(ClaimedOrder, 1, n)
        /\ n >= 3 => ex.label_item # NoChip /\ ex.labels # NoArray
        /\ n >= 6 => ex.labels # NoArray /\ ex.sentinel_item # NoScene
        /\ n = 7 =>
              /\ ex.fitted /\ ex.computed
              /\ ex.data # NoArray /\ ex.data2 # NoArray /\ ex.labels # NoArray
        /\ ex.fitted => n = 7

\* The whole notebook ran, down to the fit.
C13_Witness ==
    /\ ex.fitted
    /\ ex.ran = <<"read_file", "label_item", "open_rasterio", "search", "sorted",
                  "stack", "assign_coords", "assert_coords", "fit">>
    /\ ex.label_item = stac.catalog[ExploreLink]
    /\ Len(ex.items) = 2

\* No item of the list overlaps more than 90% of the label's footprint.
NoMatch(label_item, items) ==
    \A k \in DOMAIN items : ~OverNinety(items[k], label_item)

\* C14: a get_item call whose label chip no item of sentinel_items overlaps
\* by more than 90%, the empty list included, ends in the IndexError of
\* find_match with no item matched and no pair made (a call that ended
\* otherwise had such an item); and a load with such a label item never
\* returns (a load that returned had such an item for every label item): Xys
\* stays unassigned, with neither a shorter list nor a pair for that chip,
\* and the exception the load ends in is one that a call raised.
C14_NoMatchFailsLoad ==
    /\ \A i \in DOMAIN tr.tasks :
          tr.tasks[i].state = "finished" =>
              \/ tr.tasks[i].result = [NoResult EXCEPT !.raised = "IndexError"]
              \/ ~NoMatch(tr.label_items[i], stac.scenes)
    /\ (tr.cell = 5 \/ tr.Xys # <<>>) =>
          \A i \in DOMAIN tr.label_items : ~NoMatch(tr.label_items[i], stac.scenes)
    /\ tr.failed # "" =>
          /\ tr.cell = 4 /\ tr.Xys = <<>>
          /\ \E i \in DOMAIN tr.tasks :
                tr.tasks[i].state = "finished" /\ tr.tasks[i].result.raised = tr.failed

\* The first call returned a pair, the second found no scene over 90% of its
\* chip among the scenes searched, and the load ended in its IndexError.
C14_Witness ==
    /\ tr.failed = "IndexError"
    /\ tr.sentinel_items # <<>>
    /\ tr.done = <<1, 2>>
    /\ tr.tasks[1].result.raised = "" /\ tr.tasks[1].result.data # NoArray
    /\ NoMatch(tr.label_items[2], tr.sentinel_items)
    /\ tr.tasks[2].result.raised = "IndexError"
    /\ tr.Xys = <<>>

====
